---- MODULE Spec2Model ----
(***************************************************************************)
(* A model of the MNIST-cnn library: the layer objects of layers.py        *)
(* (FullyConnectedLayer, ConvolutionalLayer, PollingLayer) with their       *)
(* feedforward / backpropagate methods, and NeuralNetwork, train and test   *)
(* of network.py.                                                           *)
(*                                                                          *)
(* Python values are tagged records.  An ndarray is                         *)
(*   [kind |-> "ndarray", shape |-> <<d1, ..., dn>>, data |-> <<...>>]      *)
(* with the data in row-major (C) order, as numpy stores it.  A layer       *)
(* object is a record of kind "layer" holding the attributes its            *)
(* constructor sets plus z and a, which are Unset until a feedforward       *)
(* assigns them.  A call that raises yields the exception's name in the     *)
(* field exc and "none" when it returns normally.  Numbers are integers:    *)
(* the activation, cost and pooling functions come from the module          *)
(* functions, which is not part of the sources, and are represented by      *)
(* integer-valued functions (identity, relu, quadratic cost, max).          *)
(***************************************************************************)
EXTENDS Integers, Sequences, FiniteSets, TLC

VARIABLES
    pc,        \* position of the driving program
    obj,       \* the heap of layer objects: id -> layer record (0 is the input layer)
    ctor,      \* the arguments NeuralNetwork(...) is (to be) called with
    net,       \* the NeuralNetwork object: layers, input_weights, input_biases
    exc,       \* how the last call ended: "none" or the name of the exception raised
    lastOp,    \* the last entry point called on the network
    frame,     \* the locals of the running (or last) call of train / test / feedforward
    hist,      \* history of the last call: pre-state, shuffles, backpropagate calls
    lcall      \* a direct call of one layer method: its arguments and its result

vars == <<pc, obj, ctor, net, exc, lastOp, frame, hist, lcall>>

-----------------------------------------------------------------------------
(* Bounds of the model *)

MaxLayers == 2
MaxInputs == 2
MaxEpochs == 1
MaxDepth == 2
MaxSide == 2

-----------------------------------------------------------------------------
(* numpy arrays *)

RECURSIVE Prod(_)
Prod(s) == IF s = <<>> THEN 1 ELSE Head(s) * Prod(Tail(s))

RECURSIVE SumSeq(_)
SumSeq(s) == IF s = <<>> THEN 0 ELSE Head(s) + SumSeq(Tail(s))

Unset == [kind |-> "unset"]

Arr(shape, data) == [kind |-> "ndarray", shape |-> shape, data |-> data]

IsArr(v) == v.kind = "ndarray"

\* np.array([]): one axis of length 0
EmptyArr == Arr(<<0>>, <<>>)

\* np.zeros(shape)
Zeros(shape) == Arr(shape, [k \in 1..Prod(shape) |-> 0])

\* an array of the given shape with every entry c
Full(shape, c) == Arr(shape, [k \in 1..Prod(shape) |-> c])

Size(arr) == Prod(arr.shape)

Ndim(arr) == Len(arr.shape)

\* 0-based element access of 2-, 3- and 4-dimensional arrays
At2(arr, i, j) == arr.data[i * arr.shape[2] + j + 1]
At3(arr, t, i, j) == arr.data[(t * arr.shape[2] + i) * arr.shape[3] + j + 1]
At4(arr, r, t, i, j) ==
    arr.data[((r * arr.shape[2] + t) * arr.shape[3] + i) * arr.shape[4] + j + 1]

\* arr.reshape(shape): same data, new shape
Reshape(arr, shape) == Arr(shape, arr.data)

\* A @ B for 2-dimensional arrays
MatMul(A, B) ==
    LET n == A.shape[1]
        m == A.shape[2]
        p == B.shape[2]
    IN Arr(<<n, p>>,
           [k \in 1..(n * p) |->
               LET i == (k - 1) \div p
                   j == (k - 1) % p
               IN SumSeq([l \in 1..m |-> At2(A, i, l - 1) * At2(B, l - 1, j)])])

\* A.T for a 2-dimensional array
Transpose(A) ==
    LET n == A.shape[1]
        m == A.shape[2]
    IN Arr(<<m, n>>,
           [k \in 1..(n * m) |-> At2(A, (k - 1) % n, (k - 1) \div n)])

\* elementwise operations on arrays of one shape
EwAdd(A, B) == Arr(A.shape, [k \in 1..Len(A.data) |-> A.data[k] + B.data[k]])
EwSub(A, B) == Arr(A.shape, [k \in 1..Len(A.data) |-> A.data[k] - B.data[k]])
EwMul(A, B) == Arr(A.shape, [k \in 1..Len(A.data) |-> A.data[k] * B.data[k]])

\* np.argmax(arr): the first flat index (0-based) of the maximum
ArgMax(arr) ==
    CHOOSE k \in 0..(Len(arr.data) - 1) :
        /\ \A l \in 0..(Len(arr.data) - 1) : arr.data[l + 1] <= arr.data[k + 1]
        /\ \A l \in 0..(k - 1) : arr.data[l + 1] < arr.data[k + 1]

-----------------------------------------------------------------------------
(* The function provider (module functions): a function tag and its        *)
(* derivative.  Activations and the cost derivative act elementwise.       *)

ActTags == {"identity", "relu"}

ActScalar(tag, v) == IF tag = "relu" THEN (IF v > 0 THEN v ELSE 0) ELSE v

DerActScalar(tag, v) == IF tag = "relu" THEN (IF v > 0 THEN 1 ELSE 0) ELSE 1

\* act_func(z)
ActFunc(tag, A) == Arr(A.shape, [k \in 1..Len(A.data) |-> ActScalar(tag, A.data[k])])

\* get_derivative(act_func)(z)
DerActFunc(tag, A) == Arr(A.shape, [k \in 1..Len(A.data) |-> DerActScalar(tag, A.data[k])])

\* get_derivative(cost_func)(a, y) for the quadratic cost: a - y
DerCostFunc(a, y) == EwSub(a, y)

\* the maximum of a window
PollMax(W) == CHOOSE v \in {W.data[k] : k \in 1..Len(W.data)} :
                  \A k \in 1..Len(W.data) : W.data[k] <= v

\* get_derivative(max)(window): 1 at the maximum of the window, 0 elsewhere
DerPollMax(W) ==
    Arr(W.shape, [k \in 1..Len(W.data) |-> IF W.data[k] = PollMax(W) THEN 1 ELSE 0])

-----------------------------------------------------------------------------
(* Layer objects *)

\* Layer.__init__
Layer(cls, depth, height, width) ==
    [kind |-> "layer", cls |-> cls,
     depth |-> depth, height |-> height, width |-> width,
     num_neurons_out |-> depth * height * width,
     act_func |-> "none", kernel_size |-> 0, window_size |-> 0,
     stride_length |-> 0, z |-> Unset, a |-> Unset]

\* InputLayer.__init__
InputLayer(height, width) == Layer("InputLayer", 1, height, width)

\* FullyConnectedLayer.__init__
FullyConnectedLayer(width, height, act_func) ==
    [Layer("FullyConnectedLayer", 1, height, width) EXCEPT !.act_func = act_func]

\* ConvolutionalLayer.__init__
ConvolutionalLayer(depth, height, width, kernel_size, act_func) ==
    [Layer("ConvolutionalLayer", depth, height, width) EXCEPT
        !.kernel_size = kernel_size, !.stride_length = 1, !.act_func = act_func]

\* PollingLayer.__init__
PollingLayer(depth, height, width, window_size) ==
    [Layer("PollingLayer", depth, height, width) EXCEPT
        !.window_size = window_size, !.stride_length = window_size]

\* whether v.a evaluates: v is an object that has the attribute a
HasA(v) == v.kind = "layer" /\ v.a.kind = "ndarray"

\* whether v.z evaluates
HasZ(v) == v.kind = "layer" /\ v.z.kind = "ndarray"

Raise(self, e) == [exc |-> e, self |-> self]

\* FullyConnectedLayer.feedforward: sets self.z and self.a
FCFeedforward(self, prev_layer, input_w, input_b) ==
    IF ~HasA(prev_layer) THEN Raise(self, "AttributeError")
    ELSE LET input_a == Reshape(prev_layer.a, <<Size(prev_layer.a), 1>>)
         IN IF Ndim(input_w) # 2 \/ input_w.shape[2] # input_a.shape[1]
                   \/ input_b.shape # <<input_w.shape[1], 1>>
            THEN Raise(self, "ValueError")
            ELSE LET z == EwAdd(MatMul(input_w, input_a), input_b)
                     a == ActFunc(self.act_func, z)
                 IN IF z.shape # a.shape
                    THEN Raise([self EXCEPT !.z = z, !.a = a], "AssertionError")
                    ELSE [exc |-> "none", self |-> [self EXCEPT !.z = z, !.a = a]]

NoGrad(e) == [exc |-> e, der_w |-> EmptyArr, der_b |-> EmptyArr, delta |-> EmptyArr]

\* FullyConnectedLayer.backpropagate: returns (der_input_w, der_input_b, delta_zl)
FCBackpropagate(self, prev_layer, input_w, delta_z) ==
    IF ~HasA(prev_layer) THEN NoGrad("AttributeError")
    ELSE LET input_a == Reshape(prev_layer.a, <<Size(prev_layer.a), 1>>)
         IN IF Ndim(delta_z) # 2 \/ delta_z.shape[2] # 1
            THEN NoGrad("ValueError")
            ELSE LET der_input_w == MatMul(delta_z, Transpose(input_a))
                     der_input_b == delta_z
                 IN IF ~HasZ(prev_layer) THEN NoGrad("AttributeError")
                    ELSE IF prev_layer.z.shape # prev_layer.a.shape
                    THEN NoGrad("AssertionError")
                    ELSE IF Ndim(input_w) # 2 \/ input_w.shape[1] # delta_z.shape[1]
                            \/ input_w.shape[2] # Size(prev_layer.z)
                    THEN NoGrad("ValueError")
                    ELSE [exc |-> "none",
                          der_w |-> der_input_w,
                          der_b |-> der_input_b,
                          delta |-> EwMul(Reshape(MatMul(Transpose(input_w), delta_z),
                                                  prev_layer.z.shape),
                                          DerActFunc(self.act_func, prev_layer.z))]

-----------------------------------------------------------------------------
(* Indexing, slicing and broadcasting *)

Min2(a, b) == IF a < b THEN a ELSE b
Max2(a, b) == IF a > b THEN a ELSE b

\* the least element of a non-empty set of integers
MinOf(S) == CHOOSE x \in S : \A y \in S : x <= y

\* A[t] of a 3-dimensional array
Sub2of3(A, t) ==
    LET n == A.shape[2] * A.shape[3]
    IN Arr(<<A.shape[2], A.shape[3]>>, [k \in 1..n |-> A.data[t * n + k]])

\* A[r, t] of a 4-dimensional array
Sub2of4(A, r, t) ==
    LET n == A.shape[3] * A.shape[4]
    IN Arr(<<A.shape[3], A.shape[4]>>,
           [k \in 1..n |-> A.data[(r * A.shape[2] + t) * n + k]])

\* A[r0:r1, c0:c1] of a 2-dimensional array (bounds clipped as Python clips them)
Slice2(A, r0, r1, c0, c1) ==
    LET rs == Min2(r0, A.shape[1])
        re == Max2(rs, Min2(r1, A.shape[1]))
        cs == Min2(c0, A.shape[2])
        ce == Max2(cs, Min2(c1, A.shape[2]))
        rows == re - rs
        cols == ce - cs
    IN Arr(<<rows, cols>>,
           [k \in 1..(rows * cols) |->
               At2(A, rs + ((k - 1) \div cols), cs + ((k - 1) % cols))])

\* the length two axes broadcast to, -1 when they do not broadcast
BroadcastDim(a, b) == IF a = b THEN a ELSE IF a = 1 THEN b ELSE IF b = 1 THEN a ELSE -1

Broadcasts2(A, B) ==
    /\ BroadcastDim(A.shape[1], B.shape[1]) >= 0
    /\ BroadcastDim(A.shape[2], B.shape[2]) >= 0

\* np.sum(A * B) of two 2-dimensional arrays that broadcast
SumProd2(A, B) ==
    LET rows == BroadcastDim(A.shape[1], B.shape[1])
        cols == BroadcastDim(A.shape[2], B.shape[2])
    IN SumSeq([k \in 1..(rows * cols) |->
                 LET i == (k - 1) \div cols
                     j == (k - 1) % cols
                 IN At2(A, IF A.shape[1] = 1 THEN 0 ELSE i, IF A.shape[2] = 1 THEN 0 ELSE j)
                    * At2(B, IF B.shape[1] = 1 THEN 0 ELSE i, IF B.shape[2] = 1 THEN 0 ELSE j)])

\* range(0, stop, step): the number of values
RangeLen(stop, step) == IF stop <= 0 THEN 0 ELSE ((stop - 1) \div step) + 1

\* scipy.signal.convolve(A, K, mode="valid") of two 3-dimensional arrays, A at
\* least as large as K on every axis: the kernel is flipped on every axis
ConvolveValidCore(A, K) ==
    LET s1 == A.shape[1] - K.shape[1] + 1
        s2 == A.shape[2] - K.shape[2] + 1
        s3 == A.shape[3] - K.shape[3] + 1
        kn == K.shape[1] * K.shape[2] * K.shape[3]
    IN Arr(<<s1, s2, s3>>,
           [p \in 1..(s1 * s2 * s3) |->
               LET n1 == (p - 1) \div (s2 * s3)
                   n2 == ((p - 1) \div s3) % s2
                   n3 == (p - 1) % s3
               IN SumSeq([q \in 1..kn |->
                     LET u1 == (q - 1) \div (K.shape[2] * K.shape[3])
                         u2 == ((q - 1) \div K.shape[3]) % K.shape[2]
                         u3 == (q - 1) % K.shape[3]
                     IN At3(A, n1 + u1, n2 + u2, n3 + u3)
                        * At3(K, K.shape[1] - 1 - u1, K.shape[2] - 1 - u2,
                              K.shape[3] - 1 - u3)])])

AllGeq(s, t) == \A d \in 1..Len(s) : s[d] >= t[d]

\* whether "valid" mode accepts the two shapes: one at least as large as the
\* other on every axis
ConvolveValidOK(sa, sk) == AllGeq(sa, sk) \/ AllGeq(sk, sa)

ConvolveValid(A, K) ==
    IF AllGeq(A.shape, K.shape) THEN ConvolveValidCore(A, K) ELSE ConvolveValidCore(K, A)

\* input_w[r] of a 4-dimensional array: a 3-dimensional array
Sub3of4(A, r) ==
    LET n == A.shape[2] * A.shape[3] * A.shape[4]
    IN Arr(<<A.shape[2], A.shape[3], A.shape[4]>>, [k \in 1..n |-> A.data[r * n + k]])

\* np.tile in the place of np.kron: the whole of A repeated, not its entries
KronTiled(A, B) ==
    LET p == B.shape[1]
        q == B.shape[2]
        h == A.shape[2] * p
        w == A.shape[3] * q
    IN Arr(<<A.shape[1], h, w>>,
           [k \in 1..(A.shape[1] * h * w) |->
               LET r == (k - 1) \div (h * w)
                   m == ((k - 1) \div w) % h
                   n == (k - 1) % w
               IN At3(A, r, m % A.shape[2], n % A.shape[3]) * At2(B, m % p, n % q)])

\* np.kron(A, B) of a 3-dimensional A and a 2-dimensional B (B is taken as
\* (1, p, q)): every entry of A becomes a block A[r, i, j] * B
Kron(A, B) ==
    LET p == B.shape[1]
        q == B.shape[2]
        h == A.shape[2] * p
        w == A.shape[3] * q
    IN Arr(<<A.shape[1], h, w>>,
           [k \in 1..(A.shape[1] * h * w) |->
               LET r == (k - 1) \div (h * w)
                   m == ((k - 1) \div w) % h
                   n == (k - 1) % w
               IN At3(A, r, m \div p, n \div q) * At2(B, m % p, n % q)])

\* np.expand_dims(A, axis=1) of a 3-dimensional array
ExpandDims1(A) == Arr(<<A.shape[1], 1, A.shape[2], A.shape[3]>>, A.data)

-----------------------------------------------------------------------------
(* ConvolutionalLayer *)

\* ConvolutionalLayer.feedforward: sets self.z and self.a
ConvFeedforward(self, prev_layer, input_w, input_b) ==
    IF ~HasA(prev_layer) THEN Raise(self, "AttributeError")
    ELSE IF Ndim(prev_layer.a) # 3 THEN Raise(self, "AssertionError")
    ELSE IF input_w.shape # <<self.depth, prev_layer.depth, self.kernel_size, self.kernel_size>>
    THEN Raise(self, "AssertionError")
    ELSE IF input_b.shape # <<self.depth, 1>> THEN Raise(self, "AssertionError")
    ELSE IF ~ConvolveValidOK(prev_layer.a.shape, Tail(input_w.shape))
    THEN Raise(self, "ValueError")
    ELSE LET fm(r) == ConvolveValid(prev_layer.a, Sub3of4(input_w, r))
             fshape == fm(0).shape
             n == Prod(fshape)
             z == Arr(<<self.depth>> \o fshape,
                      [p \in 1..(self.depth * n) |->
                          LET r == (p - 1) \div n
                          IN fm(r).data[((p - 1) % n) + 1] + input_b.data[r + 1]])
             a == ActFunc(self.act_func, z)
         IN IF z.shape # a.shape
            THEN Raise([self EXCEPT !.z = z, !.a = a], "AssertionError")
            ELSE [exc |-> "none", self |-> [self EXCEPT !.z = z, !.a = a]]

\* The window of the weight-gradient loop: M[v:self.height:1, h:self.width:1]
ConvWindow(self, M, h, v) ==
    Slice2(M, v, self.height, h, self.width)

\* The exception, if any, that iteration q of the weight-gradient loops raises
\* (t outermost, then r, h, v)
ConvDerWExc(self, prev_layer, input_w, delta_z, q) ==
    LET k == self.kernel_size
        t == q \div (self.depth * k * k)
        r == (q \div (k * k)) % self.depth
        h == (q \div k) % k
        v == q % k
    IN IF t >= prev_layer.a.shape[1] THEN "IndexError"
       ELSE IF t >= delta_z.shape[2] THEN "IndexError"
       ELSE IF r >= input_w.shape[1] \/ t >= input_w.shape[2] THEN "IndexError"
       ELSE IF ~Broadcasts2(ConvWindow(self, Sub2of3(prev_layer.a, t), h, v),
                            ConvWindow(self, Sub2of4(delta_z, r, t), h, v))
       THEN "ValueError"
       ELSE IF h >= input_w.shape[3] \/ v >= input_w.shape[4] THEN "IndexError"
       ELSE "none"

\* der_input_w: np.empty_like(input_w) with dst[h, v] written by the loops;
\* an entry the loops do not write keeps what np.empty left there (garbage)
ConvDerW(self, prev_layer, input_w, delta_z, garbage) ==
    Arr(input_w.shape,
        [p \in 1..Prod(input_w.shape) |->
            LET s == input_w.shape
                r == (p - 1) \div (s[2] * s[3] * s[4])
                t == ((p - 1) \div (s[3] * s[4])) % s[2]
                h == ((p - 1) \div s[4]) % s[3]
                v == (p - 1) % s[4]
            IN IF r < self.depth /\ t < prev_layer.depth
                  /\ h < self.kernel_size /\ v < self.kernel_size
               THEN SumProd2(ConvWindow(self, Sub2of3(prev_layer.a, t), h, v),
                             ConvWindow(self, Sub2of4(delta_z, r, t), h, v))
               ELSE garbage])

\* der_input_b[r] = np.sum(delta_z[r])
ConvDerB(self, delta_z) ==
    LET n == Prod(Tail(delta_z.shape))
    IN Arr(<<self.depth, 1>>,
           [r \in 1..self.depth |-> SumSeq([k \in 1..n |-> delta_z.data[(r - 1) * n + k]])])

\* The exception, if any, that iteration q of the error-scatter loops raises
\* (t outermost, then r, m, n)
ConvDeltaExc(self, prev_layer, input_w, delta_z, q) ==
    LET k == self.kernel_size
        nm == RangeLen(prev_layer.height, k)
        nn == RangeLen(prev_layer.width, k)
        i == (q \div nn) % nm
        j == q % nn
        dst == Zeros(Tail(prev_layer.a.shape))
        win == Slice2(dst, i * k, i * k + k, j * k, j * k + k)
    IN IF i >= delta_z.shape[3] \/ j >= delta_z.shape[4] THEN "IndexError"
       ELSE IF BroadcastDim(Min2(win.shape[1], input_w.shape[3]), win.shape[1]) # win.shape[1]
               \/ BroadcastDim(Min2(win.shape[2], input_w.shape[4]), win.shape[2]) # win.shape[2]
       THEN "ValueError"
       ELSE "none"

\* delta_zl: np.zeros_like(prev_layer.a), each kernel_size block of it
\* incremented by kernel[:rows, :cols] * src[i, j]
ConvDelta(self, prev_layer, input_w, delta_z) ==
    LET s == prev_layer.a.shape
        k == self.kernel_size
    IN Arr(s,
           [p \in 1..Prod(s) |->
               LET t == (p - 1) \div (s[2] * s[3])
                   y == ((p - 1) \div s[3]) % s[2]
                   x == (p - 1) % s[3]
                   i == y \div k
                   j == x \div k
               IN IF t < prev_layer.depth /\ i * k < prev_layer.height
                     /\ j * k < prev_layer.width
                  THEN SumSeq([r \in 1..self.depth |->
                          At4(input_w, r - 1, t,
                              IF input_w.shape[3] = 1 THEN 0 ELSE y % k,
                              IF input_w.shape[4] = 1 THEN 0 ELSE x % k)
                          * At4(delta_z, r - 1, t, i, j)])
                  ELSE 0])

\* ConvolutionalLayer.backpropagate: returns (der_input_w, der_input_b, delta_zl)
ConvBackpropagate(self, prev_layer, input_w, delta_z, garbage) ==
    IF Ndim(delta_z) = 0 THEN NoGrad("IndexError")
    ELSE IF delta_z.shape[1] # self.depth THEN NoGrad("AssertionError")
    ELSE IF ~HasA(prev_layer) THEN NoGrad("AttributeError")
    ELSE IF Ndim(prev_layer.a) # 3 \/ Ndim(delta_z) # 4 \/ Ndim(input_w) # 4
    THEN NoGrad("IndexError")
    ELSE LET k == self.kernel_size
             wIter == 0..(prev_layer.depth * self.depth * k * k - 1)
             wBad == {q \in wIter :
                         ConvDerWExc(self, prev_layer, input_w, delta_z, q) # "none"}
             dIter == 0..(prev_layer.depth * self.depth
                            * RangeLen(prev_layer.height, k)
                            * RangeLen(prev_layer.width, k) - 1)
             dBad == {q \in dIter :
                         ConvDeltaExc(self, prev_layer, input_w, delta_z, q) # "none"}
         IN IF wBad # {}
            THEN NoGrad(ConvDerWExc(self, prev_layer, input_w, delta_z, MinOf(wBad)))
            ELSE IF dBad # {}
            THEN NoGrad(ConvDeltaExc(self, prev_layer, input_w, delta_z, MinOf(dBad)))
            ELSE [exc |-> "none",
                  der_w |-> ConvDerW(self, prev_layer, input_w, delta_z, garbage),
                  der_b |-> ConvDerB(self, delta_z),
                  delta |-> ConvDelta(self, prev_layer, input_w, delta_z)]

-----------------------------------------------------------------------------
(* PollingLayer *)

\* isinstance(v, ConvolutionalLayer)
IsConvolutionalLayer(v) == v.kind = "layer" /\ v.cls = "ConvolutionalLayer"

\* src[m:m+window_size, n:n+window_size] with src = prev_layer.a[t, 0], for
\* the window at block (i, j)
PollWindow(self, prev_layer, t, i, j) ==
    LET ws == self.window_size
    IN Slice2(Sub2of4(prev_layer.a, t, 0), i * ws, i * ws + ws, j * ws, j * ws + ws)

\* The exception, if any, that iteration q of the forward loops raises
\* (t = r outermost, then m, n)
PollForwardExc(self, prev_layer, q) ==
    LET ws == self.window_size
        nm == RangeLen(prev_layer.height, ws)
        nn == RangeLen(prev_layer.width, ws)
        t == q \div (nm * nn)
        i == (q \div nn) % nm
        j == q % nn
    IN IF t >= prev_layer.a.shape[1] \/ prev_layer.a.shape[2] = 0 THEN "IndexError"
       ELSE IF PollWindow(self, prev_layer, t, i, j).shape # <<ws, ws>>
       THEN "AssertionError"
       ELSE IF i >= self.height \/ j >= self.width THEN "IndexError"
       ELSE "none"

\* PollingLayer.feedforward: sets self.z and self.a (the same array)
PollFeedforward(self, prev_layer, input_w, input_b) ==
    IF ~IsConvolutionalLayer(prev_layer) THEN Raise(self, "AssertionError")
    ELSE IF prev_layer.depth # self.depth THEN Raise(self, "AssertionError")
    ELSE IF ~HasA(prev_layer) THEN Raise(self, "AttributeError")
    ELSE IF Ndim(prev_layer.a) # 4 THEN Raise(self, "AssertionError")
    ELSE IF Size(input_w) # 0 \/ Size(input_b) # 0 THEN Raise(self, "AssertionError")
    ELSE IF prev_layer.height % self.window_size # 0 THEN Raise(self, "AssertionError")
    ELSE LET ws == self.window_size
             nm == RangeLen(prev_layer.height, ws)
             nn == RangeLen(prev_layer.width, ws)
             iter == 0..(self.depth * nm * nn - 1)
             bad == {q \in iter : PollForwardExc(self, prev_layer, q) # "none"}
             z == Arr(<<self.depth, self.height, self.width>>,
                      [p \in 1..(self.depth * self.height * self.width) |->
                          LET r == (p - 1) \div (self.height * self.width)
                              i == ((p - 1) \div self.width) % self.height
                              j == (p - 1) % self.width
                          IN IF i < nm /\ j < nn
                             THEN PollMax(PollWindow(self, prev_layer, r, i, j))
                             ELSE 0])
         IN IF bad # {}
            THEN Raise(self, PollForwardExc(self, prev_layer, MinOf(bad)))
            ELSE [exc |-> "none", self |-> [self EXCEPT !.z = z, !.a = z]]

\* The exception, if any, that iteration q of the backward loops raises
PollBackwardExc(self, prev_layer, q) ==
    LET ws == self.window_size
        nm == RangeLen(prev_layer.height, ws)
        nn == RangeLen(prev_layer.width, ws)
        t == q \div (nm * nn)
        i == (q \div nn) % nm
        j == q % nn
    IN IF t >= prev_layer.a.shape[1] \/ prev_layer.a.shape[2] = 0 THEN "IndexError"
       ELSE IF PollWindow(self, prev_layer, t, i, j).shape # <<ws, ws>>
       THEN "AssertionError"
       ELSE "none"

\* The loops of PollingLayer.backpropagate over the expanded error: every
\* window of delta_zl[r, 0] is multiplied in place by
\* der_poll_func(src_window), src_window the same window of prev_layer.a[r, 0]
PollScaleWindows(self, prev_layer, delta_zl) ==
    LET ws == self.window_size
        s == delta_zl.shape
    IN Arr(s,
           [p \in 1..Prod(s) |->
               LET r == (p - 1) \div (s[3] * s[4])
                   m == ((p - 1) \div s[4]) % s[3]
                   n == (p - 1) % s[4]
               IN delta_zl.data[p]
                  * At2(DerPollMax(PollWindow(self, prev_layer, r, m \div ws, n \div ws)),
                        m % ws, n % ws)])

\* PollingLayer.backpropagate: returns (der_input_w, der_input_b, delta_zl)
PollBackpropagate(self, prev_layer, input_w, delta_z) ==
    IF ~IsConvolutionalLayer(prev_layer) THEN NoGrad("AssertionError")
    ELSE IF prev_layer.depth # self.depth THEN NoGrad("AssertionError")
    ELSE IF ~HasA(prev_layer) THEN NoGrad("AttributeError")
    ELSE IF Ndim(prev_layer.a) # 4 THEN NoGrad("AssertionError")
    ELSE IF Size(input_w) # 0 THEN NoGrad("AssertionError")
    ELSE IF delta_z.shape # <<self.depth, self.height, self.width>>
    THEN NoGrad("AssertionError")
    ELSE LET ws == self.window_size
             delta_zl == ExpandDims1(Kron(delta_z, Full(<<ws, ws>>, 1)))
             iter == 0..(self.depth * RangeLen(prev_layer.height, ws)
                                    * RangeLen(prev_layer.width, ws) - 1)
             bad == {q \in iter : PollBackwardExc(self, prev_layer, q) # "none"}
         IN IF delta_zl.shape # <<prev_layer.depth, 1, prev_layer.height, prev_layer.width>>
            THEN NoGrad("AssertionError")
            ELSE IF bad # {}
            THEN NoGrad(PollBackwardExc(self, prev_layer, MinOf(bad)))
            ELSE [exc |-> "none",
                  der_w |-> EmptyArr,
                  der_b |-> EmptyArr,
                  delta |-> PollScaleWindows(self, prev_layer, delta_zl)]

-----------------------------------------------------------------------------
(* NeuralNetwork *)

\* the layer preceding position i of the layer list: the input layer (id 0) first
PrevId(layers, i) == IF i = 1 THEN 0 ELSE layers[i - 1]

\* d with d[key] = value (a dict assignment)
DictSet(d, key, value) ==
    [l \in DOMAIN d \cup {key} |-> IF l = key THEN value ELSE d[l]]

\* the size of the weight array of a layer: (num_neurons_out, prev.num_neurons_out)
WeightShapeOwn(layer, prev_layer) == <<layer.num_neurons_out, layer.num_neurons_out>>

WeightShape(layer, prev_layer) == <<layer.num_neurons_out, prev_layer.num_neurons_out>>

\* the size of the bias array of a layer: (num_neurons_out, 1)
BiasShape(layer) == <<layer.num_neurons_out, 1>>

\* The loop of NeuralNetwork.__init__ from position i on: a FullyConnectedLayer
\* gets a weight array (num_neurons_out, prev.num_neurons_out) and a bias array
\* (num_neurons_out, 1); any other layer raises NotImplementedError.  wv and bv
\* are the values np.random.normal draws, one per layer position.
RECURSIVE InitLoop(_, _, _, _, _, _, _)
InitLoop(o, layers, i, ws, bs, wv, bv) ==
    IF i > Len(layers) THEN [exc |-> "none", input_weights |-> ws, input_biases |-> bs]
    ELSE IF o[layers[i]].cls = "FullyConnectedLayer"
    THEN InitLoop(o, layers, i + 1,
                  DictSet(ws, layers[i],
                          Full(WeightShape(o[layers[i]], o[PrevId(layers, i)]), wv[i])),
                  DictSet(bs, layers[i],
                          Full(BiasShape(o[layers[i]]), bv[i])),
                  wv, bv)
    ELSE [exc |-> "NotImplementedError", input_weights |-> ws, input_biases |-> bs]

\* NeuralNetwork.__init__
NeuralNetworkInit(o, layers, wv, bv) == InitLoop(o, layers, 1, <<>>, <<>>, wv, bv)

\* layer.feedforward(prev_layer, input_w, input_b), dispatched on the layer's class
LayerFeedforward(self, prev_layer, input_w, input_b) ==
    IF self.cls = "FullyConnectedLayer"
    THEN FCFeedforward(self, prev_layer, input_w, input_b)
    ELSE IF self.cls = "ConvolutionalLayer"
    THEN ConvFeedforward(self, prev_layer, input_w, input_b)
    ELSE IF self.cls = "PollingLayer"
    THEN PollFeedforward(self, prev_layer, input_w, input_b)
    ELSE Raise(self, "AssertionError")

\* What the loop of NeuralNetwork.feedforward passes as first argument of
\* layer.feedforward: input_a = prev_layer.a, the activation array
FeedforwardFirstArg(prev_layer) == prev_layer.a

RECURSIVE FeedforwardLoop(_, _, _)

\* The rest of the loop of NeuralNetwork.feedforward once the call
\* layer.feedforward of position i ended as r
FeedforwardStep(n, o, i, r) ==
    IF r.exc # "none"
    THEN [exc |-> r.exc, obj |-> [o EXCEPT ![n.layers[i]] = r.self]]
    ELSE FeedforwardLoop(n, [o EXCEPT ![n.layers[i]] = r.self], i + 1)

\* The loop of NeuralNetwork.feedforward from position i on
FeedforwardLoop(n, o, i) ==
    IF i > Len(n.layers) THEN [exc |-> "none", obj |-> o]
    ELSE FeedforwardStep(n, o, i,
             LayerFeedforward(o[n.layers[i]],
                              FeedforwardFirstArg(o[PrevId(n.layers, i)]),
                              n.input_weights[n.layers[i]],
                              n.input_biases[n.layers[i]]))

\* NeuralNetwork.feedforward(x)
NetFeedforward(n, o, x) ==
    FeedforwardLoop(n, [o EXCEPT ![0].z = EmptyArr, ![0].a = x], 1)

\* the number of positional parameters of every layer's backpropagate
\* (prev_layer, input_w, delta_z)
BackpropagateArity == 3

\* layer.backpropagate(*args), dispatched on the layer's class: a call with
\* another number of arguments than the method takes raises TypeError
LayerBackpropagate(self, args) ==
    IF Len(args) # BackpropagateArity THEN NoGrad("TypeError")
    ELSE IF self.cls = "FullyConnectedLayer"
    THEN FCBackpropagate(self, args[1], args[2], args[3])
    ELSE IF self.cls = "ConvolutionalLayer"
    THEN ConvBackpropagate(self, args[1], args[2], args[3], 0)
    ELSE IF self.cls = "PollingLayer"
    THEN PollBackpropagate(self, args[1], args[2], args[3])
    ELSE NoGrad("AssertionError")

RECURSIVE BackwardLoop(_, _, _, _, _, _)

\* The rest of the loop over reversed(self.layers) once the call
\* layer.backpropagate of position pos ended as r
BackwardStep(n, o, pos, d_der_ws, d_der_bs, r) ==
    IF r.exc # "none"
    THEN [exc |-> r.exc, d_der_ws |-> d_der_ws, d_der_bs |-> d_der_bs]
    ELSE BackwardLoop(n, o, pos - 1, r.delta,
                      DictSet(d_der_ws, n.layers[pos], r.der_w),
                      DictSet(d_der_bs, n.layers[pos], r.der_b))

\* The loop over reversed(self.layers) of NeuralNetwork.backpropagate, at
\* list position pos (from the last layer down to the first): the call is
\* layer.backpropagate(input_z, input_a, input_w, delta_zlp)
BackwardLoop(n, o, pos, delta_zlp, d_der_ws, d_der_bs) ==
    IF pos < 1 THEN [exc |-> "none", d_der_ws |-> d_der_ws, d_der_bs |-> d_der_bs]
    ELSE IF ~HasZ(o[PrevId(n.layers, pos)]) \/ ~HasA(o[PrevId(n.layers, pos)])
    THEN [exc |-> "AttributeError", d_der_ws |-> d_der_ws, d_der_bs |-> d_der_bs]
    ELSE BackwardStep(n, o, pos, d_der_ws, d_der_bs,
             LayerBackpropagate(o[n.layers[pos]],
                                <<o[PrevId(n.layers, pos)].z,
                                  o[PrevId(n.layers, pos)].a,
                                  n.input_weights[n.layers[pos]],
                                  delta_zlp>>))

LayerSet(n) == {n.layers[i] : i \in 1..Len(n.layers)}

\* delta_zlp = der_cost_func(output_layer.a, y) * output_layer.der_act_func(output_layer.z)
OutputDelta(output_layer, y) ==
    EwMul(DerCostFunc(output_layer.a, y),
          DerActFunc(output_layer.act_func, output_layer.z))

BatchFail(e, o, der_weights, der_biases) ==
    [exc |-> e, obj |-> o, der_weights |-> der_weights, der_biases |-> der_biases]

RECURSIVE BatchLoop(_, _, _, _, _, _)

\* The rest of the body for observation k once the loop over the reversed
\* layers ended as bw: the gradients of the observation are added to the sums
BatchAfterBackward(n, o, batch, k, der_weights, der_biases, bw) ==
    IF bw.exc # "none" THEN BatchFail(bw.exc, o, der_weights, der_biases)
    ELSE BatchLoop(n, o, batch, k + 1,
                   [l \in LayerSet(n) |-> EwAdd(der_weights[l], bw.d_der_ws[l])],
                   [l \in LayerSet(n) |-> EwAdd(der_biases[l], bw.d_der_bs[l])])

\* The rest of the body for observation k once self.feedforward(x) ended as ff
BatchAfterFeedforward(n, batch, k, der_weights, der_biases, ff) ==
    IF ff.exc # "none" THEN BatchFail(ff.exc, ff.obj, der_weights, der_biases)
    ELSE IF Len(n.layers) = 0
    THEN BatchFail("IndexError", ff.obj, der_weights, der_biases)
    ELSE IF ff.obj[n.layers[Len(n.layers)]].a.shape # batch[k].y.shape
    THEN BatchFail("ValueError", ff.obj, der_weights, der_biases)
    ELSE BatchAfterBackward(n, ff.obj, batch, k, der_weights, der_biases,
             BackwardLoop(n, ff.obj, Len(n.layers),
                          OutputDelta(ff.obj[n.layers[Len(n.layers)]], batch[k].y),
                          <<>>, <<>>))

\* The loop over the observations of the batch, from observation k on, with
\* the gradient sums der_weights and der_biases
BatchLoop(n, o, batch, k, der_weights, der_biases) ==
    IF k > Len(batch) THEN BatchFail("none", o, der_weights, der_biases)
    ELSE BatchAfterFeedforward(n, batch, k, der_weights, der_biases,
                               NetFeedforward(n, o, batch[k].x))

\* P - eta / len(batch) * D, elementwise (the quotient is exact on the
\* integers whenever len(batch) divides eta * D)
SgdStep(P, D, eta, len) ==
    Arr(P.shape, [k \in 1..Len(P.data) |-> P.data[k] - ((eta * D.data[k]) \div len)])

\* The update of the parameters after the loop over the batch ended as r
SgdUpdate(n, batch, eta, r) ==
    IF r.exc # "none" \/ (Len(n.layers) > 0 /\ Len(batch) = 0)
    THEN [exc |-> IF r.exc # "none" THEN r.exc ELSE "ZeroDivisionError",
          obj |-> r.obj,
          input_weights |-> n.input_weights, input_biases |-> n.input_biases]
    ELSE [exc |-> "none", obj |-> r.obj,
          input_weights |->
              [l \in DOMAIN n.input_weights |->
                  SgdStep(n.input_weights[l], r.der_weights[l], eta, Len(batch))],
          input_biases |->
              [l \in DOMAIN n.input_biases |->
                  SgdStep(n.input_biases[l], r.der_biases[l], eta, Len(batch))]]

\* NeuralNetwork.backpropagate(batch, eta): the heap and the parameters after
\* the call, and the exception it raised, if any
NetBackpropagate(n, o, batch, eta) ==
    SgdUpdate(n, batch, eta,
              BatchLoop(n, o, batch, 1,
                        [l \in LayerSet(n) |-> Zeros(n.input_weights[l].shape)],
                        [l \in LayerSet(n) |-> Zeros(n.input_biases[l].shape)]))

-----------------------------------------------------------------------------
(* train and test *)

\* Python's a % b for b # 0: the result has the sign of b
PyMod(a, b) == IF b > 0 THEN a % b ELSE -((-a) % (-b))

TrainPreconditionNonNegative(inputs, batch_size, eta) ==
    IF ~(eta >= 0) THEN "AssertionError"
    ELSE IF batch_size = 0 THEN "ZeroDivisionError"
    ELSE IF PyMod(Len(inputs), batch_size) # 0 THEN "AssertionError"
    ELSE "none"

\* The two assertions of train, in order: "AssertionError" when one fails,
\* "ZeroDivisionError" when batch_size is 0, "none" when both pass
TrainPrecondition(inputs, batch_size, eta) ==
    IF ~(eta > 0) THEN "AssertionError"
    ELSE IF batch_size = 0 THEN "ZeroDivisionError"
    ELSE IF PyMod(Len(inputs), batch_size) # 0 THEN "AssertionError"
    ELSE "none"

\* [inputs[j:j + batch_size] for j in range(0, len(inputs), batch_size)]
Batches(inputs, batch_size) ==
    IF batch_size < 0 THEN <<>>
    ELSE [b \in 1..RangeLen(Len(inputs), batch_size) |->
            SubSeq(inputs, (b - 1) * batch_size + 1,
                   Min2(b * batch_size, Len(inputs)))]

\* the orders np.random.shuffle(inputs) can leave the list in
ShuffleOrders(inputs) ==
    {[i \in 1..Len(inputs) |-> inputs[f[i]]] :
        f \in {g \in [1..Len(inputs) -> 1..Len(inputs)] :
                  \A i, j \in 1..Len(inputs) : g[i] = g[j] => i = j}}

TestEnd(e, o, perf, printed) ==
    [exc |-> e, obj |-> o, perf |-> perf, printed |-> printed]

\* if np.argmax(res) == np.argmax(y): perf += 1
Counted(res, y, perf) == IF ArgMax(res) = ArgMax(y) THEN perf + 1 ELSE perf

RECURSIVE TestLoop(_, _, _, _, _)

\* The rest of the body for observation k once net.feedforward(x) ended as ff
TestAfterFeedforward(n, tests, k, perf, ff) ==
    IF ff.exc # "none" THEN TestEnd(ff.exc, ff.obj, perf, FALSE)
    ELSE IF Len(n.layers) = 0 THEN TestEnd("IndexError", ff.obj, perf, FALSE)
    ELSE TestLoop(n, ff.obj, tests, k + 1,
                  Counted(ff.obj[n.layers[Len(n.layers)]].a, tests[k].y, perf))

\* The loop of test over the observations from k on, perf counted so far;
\* after it, the print divides by len(tests)
TestLoop(n, o, tests, k, perf) ==
    IF k > Len(tests)
    THEN TestEnd(IF Len(tests) = 0 THEN "ZeroDivisionError" ELSE "none",
                 o, perf, Len(tests) # 0)
    ELSE TestAfterFeedforward(n, tests, k, perf, NetFeedforward(n, o, tests[k].x))

\* test(net, tests)
TestRun(n, o, tests) == TestLoop(n, o, tests, 1, 0)

-----------------------------------------------------------------------------
(* The program: a network is constructed, then its entry points are called *)

\* the layer objects a network is built from
LayerTemplates ==
    { FullyConnectedLayer(3, 1, "identity"),
      FullyConnectedLayer(1, 1, "relu"),
      ConvolutionalLayer(1, 1, 1, 1, "identity"),
      PollingLayer(1, 1, 1, 1),
      InputLayer(1, 1) }

LayerLists == UNION {[1..n -> LayerTemplates] : n \in 0..MaxLayers}

\* the values np.random.normal draws for the weights and for the biases
WeightVals == {-1, 1}
BiasVals == {0, 1}

\* observations (x, y): x has the shape of the input layer, y is 1-of-k
Obs(x, y) == [x |-> Arr(<<1, 2>>, x), y |-> Arr(<<3, 1>>, y)]

ObsPool == {Obs(<<1, 0>>, <<1, 0, 0>>), Obs(<<0, 1>>, <<0, 1, 0>>)}

InputLists == UNION {[1..n -> ObsPool] : n \in 0..MaxInputs}

EtaVals == {-1, 0, 1}
BatchSizeVals == {-1, 0, 1, 2}

NoNet == [constructed |-> FALSE, layers |-> <<>>,
          input_weights |-> <<>>, input_biases |-> <<>>]

NoFrame == [inputs |-> <<>>, num_epochs |-> 0, batch_size |-> 0, eta |-> 0,
            i |-> 0, batches |-> <<>>, b |-> 0, perf |-> 0, printed |-> FALSE]

NoHist == [pre_weights |-> <<>>, pre_biases |-> <<>>, pre_inputs |-> <<>>,
           shuffles |-> 0, bp_calls |-> <<>>, bp_done |-> 0]

NoCall == [op |-> "none", cls |-> "none"]

\* the heap before the network is constructed: the input layer and the layers
Heap(layers) ==
    [id \in 0..Len(layers) |-> IF id = 0 THEN InputLayer(1, 2) ELSE layers[id]]

Init ==
    /\ pc = "new"
    /\ \E layers \in LayerLists :
          /\ obj = Heap(layers)
          /\ ctor = [layers |-> [i \in 1..Len(layers) |-> i]]
    /\ net = NoNet
    /\ exc = "none"
    /\ lastOp = "none"
    /\ frame = NoFrame
    /\ hist = NoHist
    /\ lcall = NoCall

\* net = NeuralNetwork(input_layer, layers, cost_func)
NetworkInit ==
    /\ pc = "new"
    /\ \E wv \in WeightVals, bv \in BiasVals :
          \E r \in {NeuralNetworkInit(obj, ctor.layers,
                                      [i \in 1..Len(ctor.layers) |-> wv],
                                      [i \in 1..Len(ctor.layers) |-> bv])} :
             /\ exc' = r.exc
             /\ pc' = IF r.exc = "none" THEN "idle" ELSE "failed"
             /\ net' = IF r.exc = "none"
                       THEN [constructed |-> TRUE, layers |-> ctor.layers,
                             input_weights |-> r.input_weights,
                             input_biases |-> r.input_biases]
                       ELSE net
    /\ lastOp' = "init"
    /\ UNCHANGED <<obj, ctor, frame, hist, lcall>>

Snapshot(inputs) ==
    [NoHist EXCEPT !.pre_weights = net.input_weights,
                   !.pre_biases = net.input_biases,
                   !.pre_inputs = inputs]

\* net.feedforward(x)
CallFeedforward ==
    /\ pc = "idle"
    /\ \E o \in ObsPool :
          \E r \in {NetFeedforward(net, obj, o.x)} :
             /\ obj' = r.obj
             /\ exc' = r.exc
             /\ frame' = [NoFrame EXCEPT !.inputs = <<o>>]
             /\ hist' = Snapshot(<<o>>)
    /\ lastOp' = "feedforward"
    /\ UNCHANGED <<pc, ctor, net, lcall>>

\* net.backpropagate(batch, eta)
CallBackpropagate ==
    /\ pc = "idle"
    /\ \E batch \in InputLists, eta \in EtaVals :
          \E r \in {NetBackpropagate(net, obj, batch, eta)} :
             /\ obj' = r.obj
             /\ exc' = r.exc
             /\ net' = [net EXCEPT !.input_weights = r.input_weights,
                                   !.input_biases = r.input_biases]
             /\ frame' = [NoFrame EXCEPT !.inputs = batch, !.eta = eta]
             /\ hist' = Snapshot(batch)
    /\ lastOp' = "backpropagate"
    /\ pc' = "done"
    /\ UNCHANGED <<ctor, lcall>>

\* test(net, tests)
CallTest ==
    /\ pc = "idle"
    /\ \E tests \in InputLists :
          \E r \in {TestRun(net, obj, tests)} :
             /\ obj' = r.obj
             /\ exc' = r.exc
             /\ frame' = [NoFrame EXCEPT !.inputs = tests, !.perf = r.perf,
                                         !.printed = r.printed]
             /\ hist' = Snapshot(tests)
    /\ lastOp' = "test"
    /\ pc' = "done"
    /\ UNCHANGED <<ctor, net, lcall>>

\* train(net, inputs, num_epochs, batch_size, eta) up to its loop: the two
\* assertions
CallTrain ==
    /\ pc = "idle"
    /\ \E inputs \in InputLists, num_epochs \in 0..MaxEpochs,
          batch_size \in BatchSizeVals, eta \in EtaVals :
          \E e \in {TrainPrecondition(inputs, batch_size, eta)} :
             /\ exc' = e
             /\ pc' = IF e = "none" THEN "train_for" ELSE "done"
             /\ frame' = [NoFrame EXCEPT !.inputs = inputs, !.num_epochs = num_epochs,
                                         !.batch_size = batch_size, !.eta = eta]
             /\ hist' = Snapshot(inputs)
    /\ lastOp' = "train"
    /\ UNCHANGED <<obj, ctor, net, lcall>>

\* for i in range(num_epochs): shuffle the inputs in place and cut the batches
TrainEpoch ==
    /\ pc = "train_for"
    /\ frame.i < frame.num_epochs
    /\ \E shuffled \in ShuffleOrders(frame.inputs) :
          frame' = [frame EXCEPT !.inputs = shuffled,
                                 !.batches = Batches(shuffled, frame.batch_size),
                                 !.b = 1]
    /\ hist' = [hist EXCEPT !.shuffles = @ + 1]
    /\ pc' = "train_batch"
    /\ UNCHANGED <<obj, ctor, net, exc, lastOp, lcall>>

\* the loop over the epochs is exhausted: train returns
TrainReturn ==
    /\ pc = "train_for"
    /\ frame.i >= frame.num_epochs
    /\ pc' = "done"
    /\ UNCHANGED <<obj, ctor, net, exc, lastOp, frame, hist, lcall>>

\* for batch in batches: net.backpropagate(batch, eta)
TrainBatch ==
    /\ pc = "train_batch"
    /\ frame.b <= Len(frame.batches)
    /\ \E r \in {NetBackpropagate(net, obj, frame.batches[frame.b], frame.eta)} :
          /\ obj' = r.obj
          /\ exc' = r.exc
          /\ net' = [net EXCEPT !.input_weights = r.input_weights,
                                !.input_biases = r.input_biases]
          /\ pc' = IF r.exc = "none" THEN "train_batch" ELSE "done"
          /\ frame' = [frame EXCEPT !.b = IF r.exc = "none" THEN @ + 1 ELSE @]
          /\ hist' = [hist EXCEPT !.bp_calls = Append(@, frame.batches[frame.b]),
                                  !.bp_done = IF r.exc = "none" THEN @ + 1 ELSE @]
    /\ UNCHANGED <<ctor, lastOp, lcall>>

\* the loop over the batches is exhausted: the next epoch
TrainEpochEnd ==
    /\ pc = "train_batch"
    /\ frame.b > Len(frame.batches)
    /\ frame' = [frame EXCEPT !.i = @ + 1]
    /\ pc' = "train_for"
    /\ UNCHANGED <<obj, ctor, net, exc, lastOp, hist, lcall>>

Next ==
    \/ NetworkInit
    \/ CallFeedforward
    \/ CallBackpropagate
    \/ CallTest
    \/ CallTrain
    \/ TrainEpoch
    \/ TrainReturn
    \/ TrainBatch
    \/ TrainEpochEnd

Spec == Init /\ [][Next]_vars

-----------------------------------------------------------------------------
(* Direct calls of the layer methods, as a unit test makes them: the        *)
(* previous layer's activation is set by hand, feedforward is called, then  *)
(* backpropagate with an error of the shape of the layer's output.          *)

\* the arrays of a shape with a single 1
OneHots(shape) ==
    {Arr(shape, [k \in 1..Prod(shape) |-> IF k = p THEN 1 ELSE 0]) : p \in 1..Prod(shape)}

\* the array of a shape with entries 1, 2, 3, ... in row-major order
Ramp(shape) == Arr(shape, [k \in 1..Prod(shape) |-> k])

\* the errors a backward call is given: all ones, a ramp, single ones
Deltas(shape) == {Full(shape, 1), Ramp(shape)} \cup OneHots(shape)

KernelSizes == {1, 2}
WindowSizes == {1, 2}
GarbageVals == {-7, 7}

LayerCall(cls, self, prev, w, b) ==
    [op |-> "args", cls |-> cls, self |-> self, prev |-> prev, w |-> w, b |-> b,
     exc |-> "none", delta_z |-> EmptyArr, garbage |-> 0,
     der_w |-> EmptyArr, der_b |-> EmptyArr, delta |-> EmptyArr]

\* the layer before a convolutional layer, its activation a stack of depth
\* feature maps: the input layer holding a 3-dimensional observation, or a
\* pooling layer after its feedforward (z and a the same array)
ConvPrev(depth, side, a) ==
    IF depth = 1
    THEN [InputLayer(side, side) EXCEPT !.z = EmptyArr, !.a = a]
    ELSE [PollingLayer(depth, side, side, 1) EXCEPT !.z = a, !.a = a]

ConvScenarios ==
    UNION {
      LET wshape == <<depth, pdepth, k, k>>
          ashape == <<pdepth, MaxSide, MaxSide>>
      IN { LayerCall("ConvolutionalLayer",
                     ConvolutionalLayer(depth, MaxSide - k + 1, MaxSide - k + 1, k, act),
                     ConvPrev(pdepth, MaxSide, a), w, b) :
             a \in OneHots(ashape) \cup {Ramp(ashape)},
             w \in {Ramp(wshape), Arr(wshape, [p \in 1..Prod(wshape) |->
                                                  IF p = 1 THEN 1 ELSE 0])},
             b \in {Full(<<depth, 1>>, 0), Ramp(<<depth, 1>>)},
             act \in {"identity"} } :
      depth \in 1..MaxDepth, pdepth \in 1..MaxDepth, k \in KernelSizes }

InitConv ==
    /\ pc = "layer_args"
    /\ lcall \in ConvScenarios
    /\ obj = Heap(<<>>)
    /\ ctor = [layers |-> <<>>]
    /\ net = NoNet
    /\ exc = "none"
    /\ lastOp = "none"
    /\ frame = NoFrame
    /\ hist = NoHist

\* layer.feedforward(prev_layer, input_w, input_b) on a ConvolutionalLayer
ConvFeedforwardCall ==
    /\ pc = "layer_args"
    /\ lcall.cls = "ConvolutionalLayer"
    /\ \E r \in {ConvFeedforward(lcall.self, lcall.prev, lcall.w, lcall.b)} :
          /\ lcall' = [lcall EXCEPT !.op = "feedforward", !.self = r.self, !.exc = r.exc]
          /\ pc' = IF r.exc = "none" THEN "layer_forward" ELSE "layer_done"
    /\ UNCHANGED <<obj, ctor, net, exc, lastOp, frame, hist>>

\* layer.backpropagate(prev_layer, input_w, delta_z) on a ConvolutionalLayer,
\* delta_z of the shape of the layer's z
ConvBackpropagateCall ==
    /\ pc = "layer_forward"
    /\ lcall.cls = "ConvolutionalLayer"
    /\ \E delta_z \in Deltas(lcall.self.z.shape), garbage \in GarbageVals :
          \E r \in {ConvBackpropagate(lcall.self, lcall.prev, lcall.w, delta_z, garbage)} :
             lcall' = [lcall EXCEPT !.op = "backpropagate", !.exc = r.exc,
                                    !.delta_z = delta_z, !.garbage = garbage,
                                    !.der_w = r.der_w, !.der_b = r.der_b,
                                    !.delta = r.delta]
    /\ pc' = "layer_done"
    /\ UNCHANGED <<obj, ctor, net, exc, lastOp, frame, hist>>

NextConv == ConvFeedforwardCall \/ ConvBackpropagateCall

SpecConv == InitConv /\ [][NextConv]_vars

\* the contents of the feature maps handed to a pooling layer: increasing,
\* decreasing, with ties, constant
PollData(shape) ==
    { Ramp(shape),
      Arr(shape, [k \in 1..Prod(shape) |-> Prod(shape) + 1 - k]),
      Arr(shape, [k \in 1..Prod(shape) |-> (k * k) % 5]),
      Full(shape, 0) }

\* the convolutional layer before a pooling layer after its feedforward
PollPrev(depth, height, width, a) ==
    [ConvolutionalLayer(depth, height, width, 1, "identity") EXCEPT !.z = a, !.a = a]

PollScenarios ==
    UNION {
      { LayerCall("PollingLayer",
                  PollingLayer(depth, height, width, ws),
                  PollPrev(depth, height * ws, width * ws, a), EmptyArr, EmptyArr) :
          a \in PollData(<<depth, 1, height * ws, width * ws>>)
                \cup {Ramp(<<depth, height * ws, width * ws>>)} } :
      depth \in 1..MaxDepth, height \in 1..MaxSide, width \in 1..MaxSide,
      ws \in WindowSizes }

InitPoll ==
    /\ pc = "layer_args"
    /\ lcall \in PollScenarios
    /\ obj = Heap(<<>>)
    /\ ctor = [layers |-> <<>>]
    /\ net = NoNet
    /\ exc = "none"
    /\ lastOp = "none"
    /\ frame = NoFrame
    /\ hist = NoHist

\* layer.feedforward(prev_layer, input_w, input_b) on a PollingLayer
PollFeedforwardCall ==
    /\ pc = "layer_args"
    /\ lcall.cls = "PollingLayer"
    /\ \E r \in {PollFeedforward(lcall.self, lcall.prev, lcall.w, lcall.b)} :
          /\ lcall' = [lcall EXCEPT !.op = "feedforward", !.self = r.self, !.exc = r.exc]
          /\ pc' = IF r.exc = "none" THEN "layer_forward" ELSE "layer_done"
    /\ UNCHANGED <<obj, ctor, net, exc, lastOp, frame, hist>>

\* layer.backpropagate(prev_layer, input_w, delta_z) on a PollingLayer,
\* delta_z of shape (depth, height, width)
PollBackpropagateCall ==
    /\ pc = "layer_forward"
    /\ lcall.cls = "PollingLayer"
    /\ \E delta_z \in Deltas(<<lcall.self.depth, lcall.self.height, lcall.self.width>>) :
          \E r \in {PollBackpropagate(lcall.self, lcall.prev, lcall.w, delta_z)} :
             lcall' = [lcall EXCEPT !.op = "backpropagate", !.exc = r.exc,
                                    !.delta_z = delta_z,
                                    !.der_w = r.der_w, !.der_b = r.der_b,
                                    !.delta = r.delta]
    /\ pc' = "layer_done"
    /\ UNCHANGED <<obj, ctor, net, exc, lastOp, frame, hist>>

NextPoll == PollFeedforwardCall \/ PollBackpropagateCall

SpecPoll == InitPoll /\ [][NextPoll]_vars

-----------------------------------------------------------------------------
(* Properties *)

TrainArgsFailPrecondition ==
    \/ frame.eta <= 0
    \/ frame.batch_size # 0 /\ PyMod(Len(hist.pre_inputs), frame.batch_size) # 0

\* C1: whenever train is called with eta <= 0 or len(inputs) % batch_size # 0,
\* it ends with an AssertionError before any shuffle and any call of
\* backpropagate: the order of inputs and the weights and biases of the network
\* are what they were before the call.
C1_TrainFailsBeforeTraining ==
    (lastOp = "train" /\ TrainArgsFailPrecondition) =>
        /\ pc = "done"
        /\ exc = "AssertionError"
        /\ hist.shuffles = 0
        /\ hist.bp_calls = <<>>
        /\ frame.inputs = hist.pre_inputs
        /\ net.input_weights = hist.pre_weights
        /\ net.input_biases = hist.pre_biases

\* train was called on a non-empty list whose length the batch size does not
\* divide, with a positive learning rate, and failed its precondition
C1_Witness ==
    /\ lastOp = "train"
    /\ exc = "AssertionError"
    /\ frame.eta > 0
    /\ Len(frame.inputs) > 0
    /\ Len(net.layers) > 0
    /\ PyMod(Len(frame.inputs), frame.batch_size) # 0

\* the gradient sums of the batch of the last call, from the parameters
\* before the call
BatchGradients ==
    BatchLoop([net EXCEPT !.input_weights = hist.pre_weights,
                          !.input_biases = hist.pre_biases],
              obj, frame.inputs, 1,
              [l \in LayerSet(net) |-> Zeros(hist.pre_weights[l].shape)],
              [l \in LayerSet(net) |-> Zeros(hist.pre_biases[l].shape)])

\* C2: on a network of FullyConnectedLayers and a non-empty batch,
\* backpropagate(batch, eta) returns without raising, and every layer's weights
\* and biases are then the old value minus eta / len(batch) times the sum over
\* the batch of the layer's gradients.
C2_BackpropagateCompletes ==
    (lastOp = "backpropagate" /\ Len(frame.inputs) > 0 /\ Len(net.layers) > 0) =>
        /\ exc = "none"
        /\ \A l \in LayerSet(net) :
              /\ net.input_weights[l] =
                    SgdStep(hist.pre_weights[l], BatchGradients.der_weights[l],
                            frame.eta, Len(frame.inputs))
              /\ net.input_biases[l] =
                    SgdStep(hist.pre_biases[l], BatchGradients.der_biases[l],
                            frame.eta, Len(frame.inputs))

\* C3: feedforward(x) sets the input layer's a to x, calls every layer's
\* feedforward once in order with the preceding layer, and returns: afterwards
\* every layer of the network holds z and a.
C3_FeedforwardCompletes ==
    lastOp = "feedforward" =>
        /\ exc = "none"
        /\ obj[0].a = frame.inputs[1].x
        /\ \A l \in LayerSet(net) : HasZ(obj[l]) /\ HasA(obj[l])

AllFullyConnected ==
    \A i \in 1..Len(ctor.layers) : obj[ctor.layers[i]].cls = "FullyConnectedLayer"

\* C4: the construction of a NeuralNetwork succeeds exactly when every member
\* of layers is a FullyConnectedLayer, and otherwise raises NotImplementedError;
\* on success every layer has one weight array of shape (num_neurons_out,
\* prev.num_neurons_out) and one bias array of shape (num_neurons_out, 1), prev
\* the preceding layer, the input layer for the first.
C4_ConstructionIffAllFullyConnected ==
    lastOp # "none" =>
        /\ net.constructed <=> AllFullyConnected
        /\ ~net.constructed => pc = "failed" /\ exc = "NotImplementedError"
        /\ net.constructed =>
              /\ DOMAIN net.input_weights = LayerSet(net)
              /\ DOMAIN net.input_biases = LayerSet(net)
              /\ \A i \in 1..Len(net.layers) :
                    /\ net.input_weights[net.layers[i]].shape =
                          << obj[net.layers[i]].num_neurons_out,
                             obj[IF i = 1 THEN 0 ELSE net.layers[i - 1]].num_neurons_out >>
                    /\ net.input_biases[net.layers[i]].shape =
                          << obj[net.layers[i]].num_neurons_out, 1 >>

\* a network of two fully connected layers of different sizes was constructed
C4_Witness ==
    /\ net.constructed
    /\ Len(net.layers) = 2
    /\ obj[net.layers[1]].num_neurons_out # obj[net.layers[2]].num_neurons_out
    /\ obj[net.layers[1]].num_neurons_out # obj[0].num_neurons_out

\* the number of observations of the last call that the network classifies as
\* their label says
CorrectlyClassified ==
    Cardinality({k \in 1..Len(frame.inputs) :
        ArgMax(NetFeedforward(net, obj, frame.inputs[k].x).obj[net.layers[Len(net.layers)]].a)
            = ArgMax(frame.inputs[k].y)})

\* C5: test(net, tests) runs feedforward on every pair and reports the number
\* of pairs whose output maximum is at the index of the label's maximum, with
\* the weights and biases of the network unchanged.
C5_TestCountsMatches ==
    (lastOp = "test" /\ Len(frame.inputs) > 0 /\ Len(net.layers) > 0) =>
        /\ exc = "none"
        /\ frame.printed
        /\ net.input_weights = hist.pre_weights
        /\ net.input_biases = hist.pre_biases
        /\ frame.perf = CorrectlyClassified

\* C6: after a feedforward pass every layer that holds an activation, the
\* input layer included, has z.shape = a.shape, and a layer with an activation
\* function has a = act_func(z).
C6_ShapesAgreeAfterFeedforward ==
    lastOp = "feedforward" =>
        \A id \in DOMAIN obj :
            obj[id].a # Unset =>
                /\ HasZ(obj[id])
                /\ obj[id].z.shape = obj[id].a.shape
                /\ obj[id].act_func # "none" =>
                      obj[id].a = ActFunc(obj[id].act_func, obj[id].z)

\* the number of times x occurs in the sequence s
Count(s, x) == Cardinality({k \in 1..Len(s) : s[k] = x})

\* C7: with eta > 0 and a batch size that divides len(inputs), train runs
\* num_epochs epochs, each shuffling inputs (the same observations) and calling
\* backpropagate once per batch of batch_size observations, every call
\* returning before the next.
C7_TrainRunsEveryEpoch ==
    (/\ lastOp = "train"
     /\ pc = "done"
     /\ frame.eta > 0
     /\ frame.batch_size > 0
     /\ Len(hist.pre_inputs) % frame.batch_size = 0) =>
        /\ exc = "none"
        /\ frame.i = frame.num_epochs
        /\ hist.shuffles = frame.num_epochs
        /\ Len(hist.bp_calls) = frame.num_epochs * (Len(hist.pre_inputs) \div frame.batch_size)
        /\ hist.bp_done = Len(hist.bp_calls)
        /\ \A k \in 1..Len(hist.bp_calls) : Len(hist.bp_calls[k]) = frame.batch_size
        /\ \A o \in ObsPool : Count(frame.inputs, o) = Count(hist.pre_inputs, o)

\* C8: ConvolutionalLayer.backpropagate, given a delta_z of the shape of the
\* layer's z, returns without an index error a weight gradient of the shape of
\* the weights, every entry written, and a bias gradient of shape (depth, 1),
\* whatever the depth of the previous layer.
C8_ConvGradientShapes ==
    (lcall.cls = "ConvolutionalLayer" /\ lcall.op = "backpropagate") =>
        /\ lcall.exc = "none"
        /\ lcall.der_w.shape = lcall.w.shape
        /\ lcall.garbage < 0 =>
              \A p \in 1..Len(lcall.der_w.data) : lcall.der_w.data[p] # lcall.garbage
        /\ lcall.der_b.shape = <<lcall.self.depth, 1>>

\* the cross-correlation of the weights of output channel r with the input
\* stack at position (i, j), plus the bias of the channel
CrossCorrelation(r, i, j) ==
    LET k == lcall.self.kernel_size
        d == lcall.prev.depth
    IN SumSeq([q \in 1..(d * k * k) |->
                 LET t == (q - 1) \div (k * k)
                     u == ((q - 1) \div k) % k
                     v == (q - 1) % k
                 IN At4(lcall.w, r, t, u, v) * At3(lcall.prev.a, t, i + u, j + v)])
       + lcall.b.data[r + 1]

\* C9: ConvolutionalLayer.feedforward computes z[r] at (i, j) as the sum over
\* the input channels t and the kernel offsets (u, v) of
\* input_w[r, t, u, v] * prev.a[t, i + u, j + v], plus input_b[r], on an output
\* of the input size minus kernel_size plus 1 on each axis.
C9_ConvForwardIsCrossCorrelation ==
    (lcall.cls = "ConvolutionalLayer" /\ lcall.op = "feedforward" /\ lcall.exc = "none") =>
        LET z == lcall.self.z
            k == lcall.self.kernel_size
        IN /\ z.shape = << lcall.self.depth, 1,
                           lcall.prev.a.shape[2] - k + 1, lcall.prev.a.shape[3] - k + 1 >>
           /\ \A r \in 0..(z.shape[1] - 1), i \in 0..(z.shape[3] - 1),
                 j \in 0..(z.shape[4] - 1) :
                 At4(z, r, 0, i, j) = CrossCorrelation(r, i, j)

\* the window of the pre-pooled activation of channel r that holds (m, n)
BlockOf(r, m, n) ==
    LET ws == lcall.self.window_size
    IN Arr(<<ws, ws>>,
           [k \in 1..(ws * ws) |->
               At4(lcall.prev.a, r, 0,
                   (m \div ws) * ws + ((k - 1) \div ws),
                   (n \div ws) * ws + ((k - 1) % ws))])

\* the entries of an array are pairwise different
StrictlyOrdered(W) == \A k, l \in 1..Len(W.data) : W.data[k] = W.data[l] => k = l

PollPrecondition ==
    /\ lcall.cls = "PollingLayer"
    /\ lcall.op = "backpropagate"
    /\ lcall.prev.cls = "ConvolutionalLayer"
    /\ lcall.prev.depth = lcall.self.depth
    /\ lcall.prev.a.shape = << lcall.self.depth, 1,
                               lcall.self.height * lcall.self.window_size,
                               lcall.self.width * lcall.self.window_size >>
    /\ lcall.delta_z.shape = <<lcall.self.depth, lcall.self.height, lcall.self.width>>

\* C10: PollingLayer.backpropagate, after a ConvolutionalLayer of the same
\* depth with an activation of shape (depth, 1, height * window_size,
\* width * window_size) and given delta_z of shape (depth, height, width),
\* returns empty weight and bias gradients and an error of the activation's
\* shape whose entry (m, n) of channel r is delta_z[r, m div window_size,
\* n div window_size] times the derivative of the pooling function on the
\* window holding (m, n); for max-pooling of pairwise different entries and
\* delta_z all ones, that is 1 at the maximum of each window and 0 elsewhere.
C10_PollBackwardRedistributes ==
    PollPrecondition =>
        LET ws == lcall.self.window_size
            d == lcall.delta
        IN /\ lcall.exc = "none"
           /\ lcall.der_w = EmptyArr
           /\ lcall.der_b = EmptyArr
           /\ d.shape = lcall.prev.a.shape
           /\ \A r \in 0..(d.shape[1] - 1), m \in 0..(d.shape[3] - 1),
                 n \in 0..(d.shape[4] - 1) :
                 /\ At4(d, r, 0, m, n) =
                       At3(lcall.delta_z, r, m \div ws, n \div ws)
                       * At2(DerPollMax(BlockOf(r, m, n)), m % ws, n % ws)
                 /\ (lcall.delta_z = Full(lcall.delta_z.shape, 1)
                        /\ StrictlyOrdered(BlockOf(r, m, n))) =>
                       At4(d, r, 0, m, n) =
                           IF \A k \in 1..(ws * ws) :
                                 BlockOf(r, m, n).data[k] <= At4(lcall.prev.a, r, 0, m, n)
                           THEN 1 ELSE 0

\* a backward call on 2 x 2 windows of a 4 x 4 map of pairwise different
\* entries with delta_z not constant: the error holds zeros and the entries of
\* delta_z
C10_Witness ==
    /\ PollPrecondition
    /\ lcall.exc = "none"
    /\ lcall.self.window_size = 2
    /\ lcall.self.height = 2
    /\ lcall.self.width = 2
    /\ lcall.delta_z = Ramp(lcall.delta_z.shape)
    /\ StrictlyOrdered(lcall.prev.a)
    /\ \E p, q \in 1..Len(lcall.delta.data) :
          lcall.delta.data[p] = 0 /\ lcall.delta.data[q] > 1

====
